---- MODULE Spec2Model ----
(***************************************************************************)
(* A model of pdf-chunker (src/pdf_chunker/core.py, images.py, cli.py):   *)
(* the page-by-page chunk planner chunk_pdf, the compression fallback     *)
(* process_page_images with optimize_image, the Adobe APP14 marker scan,  *)
(* and the Type0 font sanitizer.                                          *)
(***************************************************************************)
EXTENDS Integers, Sequences, FiniteSets

(***************************************************************************)
(* Bounds of the model.                                                   *)
(***************************************************************************)
\* largest page count of a source document
MaxPages == 4
\* most keys (of those the font detector tests) on one descendant record
MaxKeys == 2
\* most descendants before, and after, the descendant under test
MaxOther == 1
\* most images on the page of the fallback
MaxImages == 2
\* most bytes after the transform byte of a stream
MaxTail == 1
\* longest of the small image edges
MaxEdge == 8
\* largest of the small max_dim values
MaxSmallDim == 4

(***************************************************************************)
(* Program constants.                                                     *)
(***************************************************************************)
\* core.py:9  MAX_CHUNK_SIZE = 4.0 * 1024 * 1024
MAX_CHUNK_SIZE == 4 * 1024 * 1024

\* The serialized sizes a probe can report: exactly at the limit, or one
\* byte above it (chunk_pdf only ever compares a size with MAX_CHUNK_SIZE).
SizeVals == {MAX_CHUNK_SIZE, MAX_CHUNK_SIZE + 1}

VARIABLES
    \* ---- chunk_pdf (core.py) and main (cli.py)
    exists,         \* os.path.exists(input_path)
    total_pages,    \* len(src_pdf.pages)
    size,           \* serialized size of the chunk holding source pages a..b
    pc,             \* position of the run
    i,              \* page cursor
    current_chunk,  \* pages of the chunk being assembled (source page indices)
    chunk_count,    \* number used in the next output file name
    current_size,   \* the last probe of the loop (core.py:44)
    compressed_size, \* the last re-probe after the fallback (core.py:67)
    saved,          \* the chunks written to disk, in save order
    result,         \* return value of chunk_pdf
    exit_code,      \* exit status of the command line
    iterations,     \* passes through the body of the while loop (core.py:41)
    stalled,        \* the last pass left the cursor i where it was
    \* ---- the page of the compression fallback (core.py:65-67)
    target_page,    \* [images, fonts]: its image objects and its font table
    \* ---- a call of is_type0_font_broken
    font,           \* the argument
    font_broken,    \* the return value ("unset" before the call)
    \* ---- calls of needs_inversion and optimize_image
    arg_image,      \* the image object passed
    arg_max_dim,    \* the max_dim passed to optimize_image
    inverts,        \* the return value of needs_inversion ("unset" before)
    optimized       \* the return value of optimize_image (err "unset" before)

plannerVars == <<exists, total_pages, size, pc, i, current_chunk, chunk_count,
                 current_size, compressed_size, saved, result, exit_code,
                 iterations, stalled>>

fontVars == <<font, font_broken>>

imageVars == <<arg_image, arg_max_dim, inverts, optimized>>

\* what chunk_pdf and main leave alone
restVars == <<fontVars, imageVars>>

vars == <<plannerVars, target_page, fontVars, imageVars>>

(***************************************************************************)
(* chunk_pdf                                                              *)
(***************************************************************************)
\* the page sets a chunk of an n-page document can hold: runs a..b
Intervals(n) == {ab \in (0 .. n - 1) \X (0 .. n - 1) : ab[1] <= ab[2]}

Last(s) == s[Len(s)]

Front(s) == SubSeq(s, 1, Len(s) - 1)

\* core.py:12-16: the serialized size of a (non-empty, uncompressed) chunk
get_pdf_size(chunk) == size[<<chunk[1], Last(chunk)>>]

\* a comparison that lets one byte too many through
OverLimitLax(s) == s > MAX_CHUNK_SIZE + 1

\* core.py:46, 70: the comparison with the limit
OverLimit(s) == s > MAX_CHUNK_SIZE

\* core.py:53-57, 77-81, 88-90: write the chunk under the next number
SaveChunk(chunk, bytes, site) ==
    Append(saved, [num |-> chunk_count, pages |-> chunk, size |-> bytes,
                   site |-> site])

\* the last page left in the chunk
BacktrackedKeepsPage(chunk) == chunk

\* core.py:52: del current_chunk.pages[-1]
Backtracked(chunk) == Front(chunk)

\* the number not incremented
SameChunkCount(n) == n

\* core.py:57, 81: chunk_count += 1
NextChunkCount(n) == n + 1

\* the cursor advanced past the page that did not fit
CursorAdvanced(c) == c + 1

\* core.py:59: continue, the cursor is not advanced
CursorAfterBacktrack(c) == c

\* the saved chunk kept as the chunk being assembled
ChunkKept(chunk) == chunk

\* core.py:58: current_chunk = Pdf.new() after the backtrack save
ChunkAfterBacktrack(chunk) == <<>>

\* the return value of chunk_pdf ignored
ExitAlwaysZero(success) == 0

\* cli.py:18-20: sys.exit(1) unless chunk_pdf returned True
ExitStatus(success) == IF success THEN 0 ELSE 1

PlannerInit ==
    /\ exists \in BOOLEAN
    /\ total_pages \in (IF exists THEN 0 .. MaxPages ELSE {0})
    /\ size \in [Intervals(total_pages) -> SizeVals]
    /\ pc = "entry"
    /\ i = 0
    /\ current_chunk = <<>>
    /\ chunk_count = 1
    /\ current_size = 0
    /\ compressed_size = 0
    /\ saved = <<>>
    /\ result = "none"
    /\ exit_code = -1
    /\ iterations = 0
    /\ stalled = FALSE

\* core.py:20-22
InputNotFound ==
    /\ pc = "entry"
    /\ ~exists
    /\ result' = "False"
    /\ pc' = "returned"
    /\ UNCHANGED <<exists, total_pages, size, i, current_chunk, chunk_count,
                   current_size, compressed_size, saved, exit_code>>
    /\ UNCHANGED <<target_page, restVars>>
    /\ UNCHANGED <<iterations, stalled>>

\* core.py:24-39
OpenInput ==
    /\ pc = "entry"
    /\ exists
    /\ current_chunk' = <<>>
    /\ chunk_count' = 1
    /\ i' = 0
    /\ pc' = "loop"
    /\ UNCHANGED <<exists, total_pages, size, current_size, compressed_size,
                   saved, result, exit_code>>
    /\ UNCHANGED <<target_page, restVars>>
    /\ UNCHANGED <<iterations, stalled>>

\* core.py:41-46, 84-85: the page fits
LoopFits ==
    /\ pc = "loop"
    /\ i < total_pages
    /\ LET appended == Append(current_chunk, i)
       IN  /\ ~OverLimit(get_pdf_size(appended))
           /\ current_size' = get_pdf_size(appended)
           /\ current_chunk' = appended
           /\ i' = i + 1
    /\ UNCHANGED <<exists, total_pages, size, pc, chunk_count, compressed_size,
                   saved, result, exit_code>>
    /\ UNCHANGED <<target_page, restVars>>
    /\ iterations' = iterations + 1
    /\ stalled' = FALSE

\* core.py:41-59: over the limit with more than one page
LoopBacktrack ==
    /\ pc = "loop"
    /\ i < total_pages
    /\ LET appended == Append(current_chunk, i)
       IN  /\ OverLimit(get_pdf_size(appended))
           /\ Len(appended) > 1
           /\ current_size' = get_pdf_size(appended)
           /\ saved' = SaveChunk(Backtracked(appended),
                                 get_pdf_size(Backtracked(appended)),
                                 "backtrack")
           /\ chunk_count' = NextChunkCount(chunk_count)
           /\ current_chunk' = ChunkAfterBacktrack(Backtracked(appended))
           /\ i' = CursorAfterBacktrack(i)
    /\ UNCHANGED <<exists, total_pages, size, pc, compressed_size, result,
                   exit_code>>
    /\ UNCHANGED <<target_page, restVars>>
    /\ iterations' = iterations + 1
    /\ stalled' = (i' = i)

(***************************************************************************)
(* is_type0_font_broken, remove_broken_fonts (images.py)                  *)
(***************************************************************************)
\* the /Subtype values the detector tells apart ("absent": no /Subtype key)
Subtypes == {"absent", "CIDFontType0", "CIDFontType2", "CIDFontType0C",
             "Image", "TrueType", "Type0", "Type1"}

\* the /Type values the detector tells apart ("absent": no /Type key)
Types == {"absent", "Page", "XObject", "Font"}

\* the keys whose presence the detector tests
Keys == {"/CreationDate", "/ModDate", "/Producer", "/Filter", "/Length",
         "/BaseFont", "/DescendantFonts", "/CIDSystemInfo", "/W"}

KeySets == {ks \in SUBSET Keys : Cardinality(ks) <= MaxKeys}

\* an element of a /DescendantFonts array: None, an object without get, or a
\* dictionary
NoneEntry == [kind |-> "none", Subtype |-> "absent", Type |-> "absent",
              keys |-> {}]

ScalarEntry == [kind |-> "scalar", Subtype |-> "absent", Type |-> "absent",
                keys |-> {}]

DictEntries == [kind : {"dict"}, Subtype : Subtypes, Type : Types,
                keys : KeySets]

Entries == DictEntries \cup {NoneEntry, ScalarEntry}

\* the loop body without the test of /Type against /Page
EntryBrokenNoPageTest(d) ==
    IF d.kind = "none" THEN TRUE
    ELSE IF d.kind # "dict" THEN TRUE
    ELSE IF d.Subtype \in {"CIDFontType0", "CIDFontType2"}
         THEN ~("/BaseFont" \in d.keys)
    ELSE \/ d.Subtype \in {"CIDFontType0C", "Image", "TrueType", "Type0"}
         \/ d.Type = "XObject"
         \/ "/CreationDate" \in d.keys
         \/ "/ModDate" \in d.keys
         \/ "/Producer" \in d.keys
         \/ ("/Filter" \in d.keys /\ "/Length" \in d.keys
                /\ ~("/BaseFont" \in d.keys))
         \/ "/DescendantFonts" \in d.keys
         \/ (d.Subtype = "absent"
                /\ ~("/CIDSystemInfo" \in d.keys) /\ ~("/W" \in d.keys)
                /\ ~("/BaseFont" \in d.keys))

\* images.py:41-99: one pass of the loop body; TRUE is "return True", FALSE is
\* falling through to the next descendant
EntryBroken(d) ==
    IF d.kind = "none" THEN TRUE
    ELSE IF d.kind # "dict" THEN TRUE
    ELSE IF d.Subtype \in {"CIDFontType0", "CIDFontType2"}
         THEN ~("/BaseFont" \in d.keys)
    ELSE \/ d.Subtype = "CIDFontType0C"
         \/ d.Subtype = "Image"
         \/ d.Subtype = "TrueType"
         \/ d.Subtype = "Type0"
         \/ d.Type = "Page"
         \/ d.Type = "XObject"
         \/ "/CreationDate" \in d.keys
         \/ "/ModDate" \in d.keys
         \/ "/Producer" \in d.keys
         \/ ("/Filter" \in d.keys /\ "/Length" \in d.keys
                /\ ~("/BaseFont" \in d.keys))
         \/ "/DescendantFonts" \in d.keys
         \/ (d.Subtype = "absent"
                /\ ~("/CIDSystemInfo" \in d.keys) /\ ~("/W" \in d.keys)
                /\ ~("/BaseFont" \in d.keys))

\* images.py:40-101: the loop over the descendants, first match returns
RECURSIVE AnyDescendantBroken(_)
AnyDescendantBroken(desc) ==
    IF desc = <<>> THEN FALSE
    ELSE IF EntryBroken(Head(desc)) THEN TRUE
    ELSE AnyDescendantBroken(Tail(desc))

\* images.py:11-101; a font is [Subtype, descKind, desc]: descKind says
\* whether /DescendantFonts is absent, not iterable, or an array
is_type0_font_broken(f) ==
    IF f.Subtype # "Type0" THEN FALSE
    ELSE IF f.descKind = "absent" THEN TRUE
    ELSE IF f.descKind # "array" THEN TRUE
    ELSE AnyDescendantBroken(f.desc)

\* images.py:118-120
broken_fonts(table) == {fname \in DOMAIN table : is_type0_font_broken(table[fname])}

\* images.py:104-126: the font table after the removal
remove_broken_fonts(table) ==
    [fname \in (DOMAIN table) \ broken_fonts(table) |-> table[fname]]

(***************************************************************************)
(* has_adobe_app14_marker, needs_inversion (images.py)                    *)
(***************************************************************************)
\* b"Adobe"
AdobeSig == <<65, 100, 111, 98, 101>>

Min(a, b) == IF a <= b THEN a ELSE b

Max(a, b) == IF a >= b THEN a ELSE b

\* data[a:b] of Python, for 0 <= a <= b (positions are 0-based)
Slice(data, a, b) ==
    IF a >= Len(data) THEN <<>> ELSE SubSeq(data, a + 1, Min(b, Len(data)))

\* images.py:192-193: jpeg_data.find(b"\xff\xee"), searched from position p
RECURSIVE FindMarkerFrom(_, _)
FindMarkerFrom(data, p) ==
    IF p + 2 > Len(data) THEN -1
    ELSE IF data[p + 1] = 255 /\ data[p + 2] = 238 THEN p
    ELSE FindMarkerFrom(data, p + 1)

\* the transform byte looked for one byte too far
TransformOffByOne(start) == start + 12

\* images.py:198: the offset of the transform byte from the signature
TransformOffset(start) == start + 11

\* images.py:191-200; transform -1 stands for None
has_adobe_app14_marker(jpeg_data) ==
    LET idx == FindMarkerFrom(jpeg_data, 0)
        start == idx + 4
    IN  IF idx = -1 THEN [has |-> FALSE, transform |-> -1]
        ELSE IF Slice(jpeg_data, start, start + 5) = AdobeSig
             THEN [has |-> TRUE,
                   transform |->
                       IF Len(jpeg_data) > TransformOffset(start)
                       THEN jpeg_data[TransformOffset(start) + 1] ELSE -1]
        ELSE [has |-> FALSE, transform |-> -1]

\* images.py:203-208
needs_inversion(image) ==
    IF image.Filter # "DCTDecode" THEN FALSE
    ELSE LET m == has_adobe_app14_marker(image.data)
         IN  m.has /\ m.transform \in {0, 2}

(***************************************************************************)
(* The arithmetic of images.py:154-155: max_dim / max(width, height) is a  *)
(* division of IEEE 754 doubles, width * scale a multiplication of        *)
(* doubles, int() a truncation.  Integers here stay below 2^31, so a      *)
(* 53-bit mantissa is kept in limbs: a number is [hi, lo], lo four limbs  *)
(* of 12 bits, most significant first, and stands for                     *)
(* hi * 2^48 + lo[1] * 2^36 + lo[2] * 2^24 + lo[3] * 2^12 + lo[4].        *)
(* A double is [m, e] with 2^4 <= m.hi < 2^5 and value m * 2^e.  Edges    *)
(* are below 2^19.                                                        *)
(***************************************************************************)
MantissaBits == 53

LimbBits == 12

Limb == 4096

RECURSIVE Pow2(_)
Pow2(n) == IF n = 0 THEN 1 ELSE 2 * Pow2(n - 1)

\* the number of bits of n > 0
RECURSIVE BitLen(_)
BitLen(n) == IF n = 0 THEN 0 ELSE 1 + BitLen(n \div 2)

\* bit p (0 the least significant) of the number x
BigBit(x, p) ==
    IF p >= 4 * LimbBits THEN (x.hi \div Pow2(p - 4 * LimbBits)) % 2
    ELSE (x.lo[4 - (p \div LimbBits)] \div Pow2(p % LimbBits)) % 2

BigLen(x) == 4 * LimbBits + BitLen(x.hi)

\* the value of the count bits of x from bit p upwards
RECURSIVE BigRange(_, _, _)
BigRange(x, p, count) ==
    IF count = 0 THEN 0
    ELSE BigBit(x, p) + 2 * BigRange(x, p + 1, count - 1)

\* x + 1
BigInc(x) ==
    LET c4 == x.lo[4] + 1
        c3 == x.lo[3] + (c4 \div Limb)
        c2 == x.lo[2] + (c3 \div Limb)
        c1 == x.lo[1] + (c2 \div Limb)
    IN  [hi |-> x.hi + (c1 \div Limb),
         lo |-> <<c1 % Limb, c2 % Limb, c3 % Limb, c4 % Limb>>]

\* round-half-even: the mantissa m at exponent e, one unit added when up
Rounded(m, e, up) ==
    IF ~up THEN [m |-> m, e |-> e]
    ELSE LET r == BigInc(m)
         IN  IF r.hi < Pow2(MantissaBits - 4 * LimbBits) THEN [m |-> r, e |-> e]
             ELSE [m |-> [hi |-> r.hi \div 2, lo |-> <<0, 0, 0, 0>>],
                   e |-> e + 1]

\* the number of zero bits after the binary point of num / den, 0 < num < den
RECURSIVE LeadingZeros(_, _)
LeadingZeros(num, den) ==
    IF 2 * num >= den THEN 0 ELSE 1 + LeadingZeros(2 * num, den)

\* the double nearest num / den, for integers 0 < num < den: long division,
\* 5 bits and then four limbs of 12
FloatDiv(num, den) ==
    LET z == LeadingZeros(num, den)
        r0 == num * Pow2(z)
        top == Pow2(MantissaBits - 4 * LimbBits)
        q1 == (r0 * top) \div den
        r1 == (r0 * top) % den
        q2 == (r1 * Limb) \div den
        r2 == (r1 * Limb) % den
        q3 == (r2 * Limb) \div den
        r3 == (r2 * Limb) % den
        q4 == (r3 * Limb) \div den
        r4 == (r3 * Limb) % den
        q5 == (r4 * Limb) \div den
        r5 == (r4 * Limb) % den
        up == \/ 2 * r5 > den
              \/ (2 * r5 = den /\ q5 % 2 = 1)
    IN  Rounded([hi |-> q1, lo |-> <<q2, q3, q4, q5>>],
                0 - (z + MantissaBits), up)

\* the double nearest k * x, for an integer k > 0 and a double x
FloatMulInt(k, x) ==
    LET t4 == x.m.lo[4] * k
        t3 == x.m.lo[3] * k + (t4 \div Limb)
        t2 == x.m.lo[2] * k + (t3 \div Limb)
        t1 == x.m.lo[1] * k + (t2 \div Limb)
        p == [hi |-> x.m.hi * k + (t1 \div Limb),
              lo |-> <<t1 % Limb, t2 % Limb, t3 % Limb, t4 % Limb>>]
        drop == BigLen(p) - MantissaBits
        keep == [hi |-> BigRange(p, drop + 4 * LimbBits,
                                 MantissaBits - 4 * LimbBits),
                 lo |-> <<BigRange(p, drop + 3 * LimbBits, LimbBits),
                          BigRange(p, drop + 2 * LimbBits, LimbBits),
                          BigRange(p, drop + LimbBits, LimbBits),
                          BigRange(p, drop, LimbBits)>>]
        sticky == \E j \in 0 .. drop - 2 : BigBit(p, j) = 1
        up == /\ drop > 0
              /\ BigBit(p, drop - 1) = 1
              /\ (sticky \/ BigBit(p, drop) = 1)
    IN  Rounded(keep, x.e + drop, up)

\* int(x) for a double 0 <= x < 2^31
FloatToInt(x) ==
    LET whole == MantissaBits + x.e
    IN  IF whole <= 0 THEN 0
        ELSE BigRange(x.m, MantissaBits - whole, whole)

\* images.py:154-155: int(edge * (max_dim / longest)), max_dim < longest
ScaledEdge(edge, max_dim, longest) ==
    FloatToInt(FloatMulInt(edge, FloatDiv(max_dim, longest)))

(***************************************************************************)
(* optimize_image, process_page_images (images.py)                        *)
(*                                                                        *)
(* An image object is [data, Filter, ColorSpace, BitsPerComponent, Width, *)
(* Height, Decode, DecodeParms, mode, fault]: Decode and DecodeParms say  *)
(* whether the key is present, mode is the pixel mode its decoding        *)
(* yields, and fault the step of the codec that raises on it ("none",     *)
(* "decode", "encode").  The codec's work on the pixels is recorded as    *)
(* the list of calls made to it.                                          *)
(***************************************************************************)
\* images.py:173-186: the re-encoded JPEG stream; starts with SOI and a
\* JFIF APP0 marker
Encode(mode, width, height, quality, subsampling) ==
    <<255, 216, 255, 224, quality, subsampling, width % 256, height % 256>>

Raised(err) ==
    [err |-> err, data |-> <<>>, width |-> 0, height |-> 0, mode |-> "",
     calls |-> <<>>]

\* images.py:145-149: a CMYK image is inverted when needed, then converted
AfterCmyk(image) ==
    IF image.mode = "CMYK"
    THEN [mode |-> "RGB",
          calls |-> (IF needs_inversion(image) THEN <<"invert">> ELSE <<>>)
                        \o <<"convert">>,
          modified |-> TRUE]
    ELSE [mode |-> image.mode, calls |-> <<>>, modified |-> FALSE]

\* images.py:153: the resize condition
NeedsResize(width, height, max_dim) ==
    max_dim # 0 /\ Max(width, height) > max_dim

\* images.py:154-155: new_size
NewSize(width, height, max_dim) ==
    <<ScaledEdge(width, max_dim, Max(width, height)),
      ScaledEdge(height, max_dim, Max(width, height))>>

\* images.py:159-167: the pixel mode after flattening or coercion
IsAlphaMode(mode) == mode \in {"RGBA", "P", "LA"}

\* images.py:129-188; Image.resize raises ValueError for an empty size
optimize_image(image, quality, max_dim) ==
    IF image.fault = "decode" THEN Raised("decode")
    ELSE
    LET c == AfterCmyk(image)
        resize == NeedsResize(image.Width, image.Height, max_dim)
        new_size == IF resize
                    THEN NewSize(image.Width, image.Height, max_dim)
                    ELSE <<image.Width, image.Height>>
        flatten == IsAlphaMode(c.mode)
        coerce == ~flatten /\ c.mode \notin {"RGB", "CMYK"}
        final_mode == IF flatten \/ coerce THEN "RGB" ELSE c.mode
        is_modified == c.modified \/ resize \/ flatten \/ coerce
        calls == c.calls
                    \o (IF resize THEN <<"resize">> ELSE <<>>)
                    \o (IF flatten THEN <<"flatten">> ELSE <<>>)
                    \o (IF coerce THEN <<"convert">> ELSE <<>>)
    IN  IF resize /\ (new_size[1] < 1 \/ new_size[2] < 1)
        THEN Raised("resize")
        ELSE IF ~is_modified /\ image.Filter = "DCTDecode"
        THEN [err |-> "none", data |-> image.data, width |-> new_size[1],
              height |-> new_size[2], mode |-> final_mode, calls |-> calls]
        ELSE IF image.fault = "encode" THEN Raised("encode")
        ELSE [err |-> "none",
              data |-> Encode(final_mode, new_size[1], new_size[2], quality,
                              IF final_mode = "CMYK" THEN 0 ELSE 2),
              width |-> new_size[1], height |-> new_size[2],
              mode |-> final_mode, calls |-> Append(calls, "save")]

\* images.py:230: quality=75
FallbackQuality == 75

\* images.py:211: max_dim=1500
DefaultMaxDim == 1500

\* images.py:218
SupportedFilter(f) == f \in {"DCTDecode", "FlateDecode"}

\* images.py:233-243: the image object overwritten with the result r
Rewritten(image, r) ==
    [image EXCEPT !.data = r.data, !.Width = r.width, !.Height = r.height,
                  !.Filter = "DCTDecode", !.ColorSpace = "DeviceRGB",
                  !.BitsPerComponent = 8, !.Decode = FALSE,
                  !.DecodeParms = FALSE, !.mode = r.mode]

\* the loop with the object's keys assigned before the image is optimized,
\* so that a failure leaves them overwritten
RECURSIVE ProcessFromEager(_, _, _)
ProcessFromEager(page, k, max_dim) ==
    IF k > Len(page.images) THEN page
    ELSE LET image_obj == page.images[k]
             r == optimize_image(image_obj, FallbackQuality, max_dim)
             early == [image_obj EXCEPT !.Filter = "DCTDecode",
                                        !.ColorSpace = "DeviceRGB",
                                        !.BitsPerComponent = 8]
         IN  IF ~SupportedFilter(image_obj.Filter)
             THEN ProcessFromEager(page, k + 1, max_dim)
             ELSE IF r.err # "none"
             THEN ProcessFromEager(
                     [page EXCEPT !.images[k] = early], k + 1, max_dim)
             ELSE ProcessFromEager(
                     [images |-> [page.images EXCEPT
                                      ![k] = Rewritten(image_obj, r)],
                      fonts |-> remove_broken_fonts(page.fonts)],
                     k + 1, max_dim)

\* images.py:213-248: the loop from image k on; the page is [images, fonts]
RECURSIVE ProcessFrom(_, _, _)
ProcessFrom(page, k, max_dim) ==
    IF k > Len(page.images) THEN page
    ELSE LET image_obj == page.images[k]
             r == optimize_image(image_obj, FallbackQuality, max_dim)
         IN  IF ~SupportedFilter(image_obj.Filter)
             THEN ProcessFrom(page, k + 1, max_dim)
             ELSE IF r.err # "none"
             THEN ProcessFrom(page, k + 1, max_dim)
             ELSE ProcessFrom(
                     [images |-> [page.images EXCEPT
                                      ![k] = Rewritten(image_obj, r)],
                      fonts |-> remove_broken_fonts(page.fonts)],
                     k + 1, max_dim)

\* images.py:211-248
process_page_images(page, max_dim) == ProcessFrom(page, 1, max_dim)

(***************************************************************************)
(* The inputs of the model.                                               *)
(***************************************************************************)
\* a well-formed CIDFont descendant
GoodCID == [kind |-> "dict", Subtype |-> "CIDFontType2", Type |-> "Font",
            keys |-> {"/BaseFont", "/CIDSystemInfo"}]

\* a page object in the place of a descendant
PageObject == [kind |-> "dict", Subtype |-> "absent", Type |-> "Page",
               keys |-> {}]

SimpleFont == [Subtype |-> "TrueType", descKind |-> "absent", desc |-> <<>>]

GoodType0 == [Subtype |-> "Type0", descKind |-> "array", desc |-> <<GoodCID>>]

NoDescType0 == [Subtype |-> "Type0", descKind |-> "absent", desc |-> <<>>]

PageType0 == [Subtype |-> "Type0", descKind |-> "array",
              desc |-> <<PageObject>>]

FontSamples == {SimpleFont, GoodType0, NoDescType0, PageType0}

FontNames == {"/F1", "/F2"}

FontTables == UNION {[names -> FontSamples] : names \in SUBSET FontNames}

\* descendants placed around the one under test
OtherEntries == {GoodCID, NoneEntry}

RECURSIVE SeqsUpTo(_, _)
SeqsUpTo(S, n) ==
    IF n = 0 THEN {<<>>}
    ELSE LET shorter == SeqsUpTo(S, n - 1)
         IN  shorter \cup {Append(q, x) : q \in shorter, x \in S}

\* the fonts is_type0_font_broken is called on
TestFonts ==
    {SimpleFont, NoDescType0,
     [Subtype |-> "Type0", descKind |-> "scalar", desc |-> <<>>],
     [Subtype |-> "Type0", descKind |-> "array", desc |-> <<>>]}
    \cup {[Subtype |-> "Type0", descKind |-> "array",
           desc |-> before \o <<d>> \o after] :
             before \in SeqsUpTo(OtherEntries, MaxOther),
             d \in Entries,
             after \in SeqsUpTo(OtherEntries, MaxOther)}

\* an APP14 segment: marker, length, signature, version, flags0, flags1,
\* transform
App14(sig, transform) ==
    <<255, 238, 0, 14>> \o sig \o <<0, 100, 128, 0, 0, 0>> \o <<transform>>

\* byte streams: a prefix, an APP14 segment with a right or wrong
\* signature, a tail, cut at every length
Prefixes == {<<>>, <<255, 216>>, <<255>>, <<255, 238>>, <<238, 255, 216>>}

Signatures == {AdobeSig, <<65, 100, 111, 98, 69>>}

Transforms == {0, 1, 2, 3, 255}

FullStreams ==
    {pre \o App14(sig, t) \o tail :
        pre \in Prefixes, sig \in Signatures, t \in Transforms,
        tail \in SeqsUpTo({217}, MaxTail)}

Streams ==
    UNION {{SubSeq(full, 1, n) : n \in 0 .. Len(full)} : full \in FullStreams}

\* the stream of a JPEG written without an APP14 segment
PlainJpeg == <<255, 216, 255, 224, 0, 16>>

Filters == {"DCTDecode", "FlateDecode", "JPXDecode"}

Modes == {"CMYK", "RGB", "L", "RGBA"}

ImageOf(data, filter, mode, width, height, fault) ==
    [data |-> data, Filter |-> filter,
     ColorSpace |-> (IF mode = "CMYK" THEN "DeviceCMYK"
                     ELSE IF mode = "L" THEN "DeviceGray" ELSE "DeviceRGB"),
     BitsPerComponent |-> 8, Width |-> width, Height |-> height,
     Decode |-> (mode = "CMYK"), DecodeParms |-> (filter = "FlateDecode"),
     mode |-> mode, fault |-> fault]

\* the edges tried: the small ones, and some of real scans
Edges == (1 .. MaxEdge) \cup {750, 1001, 1500, 1501, 2000, 2147, 3001}

MaxDims == (0 .. MaxSmallDim) \cup {DefaultMaxDim}

\* the images of the pages of the fallback
ImageSamples ==
    {ImageOf(PlainJpeg, "DCTDecode", "RGB", 2, 2, "none"),
     ImageOf(App14(AdobeSig, 2), "DCTDecode", "CMYK", 2000, 1001, "none"),
     ImageOf(<<120, 156>>, "FlateDecode", "RGBA", 3, 2, "none"),
     ImageOf(<<0, 0, 0, 12>>, "JPXDecode", "RGB", 2000, 2000, "none"),
     ImageOf(PlainJpeg, "DCTDecode", "CMYK", 2, 2, "decode"),
     ImageOf(<<120, 156>>, "FlateDecode", "L", 2, 3, "encode"),
     ImageOf(PlainJpeg, "DCTDecode", "RGB", 3001, 1, "none")}

Pages == [images : SeqsUpTo(ImageSamples, MaxImages), fonts : FontTables]

\* the pages a document of the whole run holds where a single page is over
\* the limit: a page with a broken font and no image, a page with a
\* deflated RGBA image and two fonts, a page with a large CMYK scan
DocPages ==
    {[images |-> <<>>, fonts |-> [n \in {"/F1"} |-> NoDescType0]],
     [images |-> <<ImageOf(<<120, 156>>, "FlateDecode", "RGBA", 3, 2, "none")>>,
      fonts |-> [n \in FontNames |->
                    IF n = "/F1" THEN NoDescType0 ELSE SimpleFont]],
     [images |-> <<ImageOf(App14(AdobeSig, 2), "DCTDecode", "CMYK", 2000,
                           1001, "none")>>,
      fonts |-> <<>>]}

NoImage == ImageOf(<<>>, "DCTDecode", "RGB", 1, 1, "none")

Unset == [err |-> "unset", data |-> <<>>, width |-> 0, height |-> 0,
          mode |-> "", calls |-> <<>>]

(***************************************************************************)
(* Initial states.  Each specification runs one part of the program; the  *)
(* variables of the other parts stay at rest.                             *)
(***************************************************************************)
PageAtRest == target_page = [images |-> <<>>, fonts |-> <<>>]

FontAtRest == font = SimpleFont /\ font_broken = "unset"

ImageAtRest ==
    /\ arg_image = NoImage
    /\ arg_max_dim = 0
    /\ inverts = "unset"
    /\ optimized = Unset

PlannerAtRest ==
    /\ exists = TRUE
    /\ total_pages = 0
    /\ size = <<>>
    /\ pc = "rest"
    /\ i = 0
    /\ current_chunk = <<>>
    /\ chunk_count = 1
    /\ current_size = 0
    /\ compressed_size = 0
    /\ saved = <<>>
    /\ result = "none"
    /\ exit_code = -1
    /\ iterations = 0
    /\ stalled = FALSE

\* a run of the command line on any document
Init == PlannerInit /\ PageAtRest /\ FontAtRest /\ ImageAtRest

\* chunk_pdf at core.py:61, the first page alone being over the limit
FallbackInit ==
    /\ exists = TRUE
    /\ total_pages = 1
    /\ size = [ab \in Intervals(1) |-> MAX_CHUNK_SIZE + 1]
    /\ pc = "fallback"
    /\ i = 0
    /\ current_chunk = <<0>>
    /\ chunk_count = 1
    /\ current_size = MAX_CHUNK_SIZE + 1
    /\ compressed_size = 0
    /\ saved = <<>>
    /\ result = "none"
    /\ exit_code = -1
    /\ iterations = 0
    /\ stalled = FALSE
    /\ target_page \in Pages
    /\ FontAtRest
    /\ ImageAtRest

FontInit ==
    /\ PlannerAtRest
    /\ PageAtRest
    /\ font \in TestFonts
    /\ font_broken = "unset"
    /\ ImageAtRest

\* images with every byte stream
InvertInit ==
    /\ PlannerAtRest
    /\ PageAtRest
    /\ FontAtRest
    /\ \E data \in Streams, f \in Filters, mode \in Modes :
            arg_image = ImageOf(data, f, mode, 2, 2, "none")
    /\ arg_max_dim = DefaultMaxDim
    /\ inverts = "unset"
    /\ optimized = Unset

\* images of every size
ResizeInit ==
    /\ PlannerAtRest
    /\ PageAtRest
    /\ FontAtRest
    /\ \E w \in Edges, h \in Edges, f \in {"DCTDecode", "FlateDecode"} :
            arg_image = ImageOf(PlainJpeg, f, "RGB", w, h, "none")
    /\ arg_max_dim \in MaxDims
    /\ inverts = "unset"
    /\ optimized = Unset

(***************************************************************************)
(* chunk_pdf: the passes that take the compression fallback, and the end  *)
(***************************************************************************)
\* core.py:65-66: process_page_images(current_chunk, target_page), max_dim
\* left at its default, on each of the pages above
Processed == [page \in DocPages |-> process_page_images(page, DefaultMaxDim)]

\* core.py:41-51, 61-83: over the limit with a single page; the images and
\* the fonts of the page (pages[i], one of DocPages) are processed in the
\* chunk (core.py:65-66) and the re-probed size is under the limit
LoopCompressSave ==
    /\ pc = "loop"
    /\ i < total_pages
    /\ LET appended == Append(current_chunk, i)
       IN  /\ OverLimit(get_pdf_size(appended))
           /\ ~(Len(appended) > 1)
           /\ current_size' = get_pdf_size(appended)
           /\ \E s2 \in SizeVals :
                /\ ~OverLimit(s2)
                /\ compressed_size' = s2
                /\ saved' = SaveChunk(appended, s2, "compressed")
           /\ chunk_count' = NextChunkCount(chunk_count)
           /\ current_chunk' = <<>>
           /\ i' = i + 1
    /\ UNCHANGED <<exists, total_pages, size, pc, result, exit_code>>
    /\ \E page \in DocPages : target_page' = Processed[page]
    /\ UNCHANGED restVars
    /\ iterations' = iterations + 1
    /\ stalled' = FALSE

\* core.py:41-51, 61-75: the page is processed (core.py:65-66) and the
\* re-probed size is still over the limit
LoopCompressFail ==
    /\ pc = "loop"
    /\ i < total_pages
    /\ LET appended == Append(current_chunk, i)
       IN  /\ OverLimit(get_pdf_size(appended))
           /\ ~(Len(appended) > 1)
           /\ current_size' = get_pdf_size(appended)
           /\ \E s2 \in SizeVals :
                /\ OverLimit(s2)
                /\ compressed_size' = s2
           /\ current_chunk' = appended
    /\ result' = "False"
    /\ pc' = "returned"
    /\ UNCHANGED <<exists, total_pages, size, i, chunk_count, saved, exit_code>>
    /\ \E page \in DocPages : target_page' = Processed[page]
    /\ UNCHANGED restVars
    /\ iterations' = iterations + 1
    /\ stalled' = (i' = i)

\* core.py:87-93: the loop is over
LoopExit ==
    /\ pc = "loop"
    /\ ~(i < total_pages)
    /\ saved' = IF Len(current_chunk) > 0
                THEN SaveChunk(current_chunk, get_pdf_size(current_chunk),
                               "final")
                ELSE saved
    /\ result' = "True"
    /\ pc' = "returned"
    /\ UNCHANGED <<exists, total_pages, size, i, current_chunk, chunk_count,
                   current_size, compressed_size, exit_code>>
    /\ UNCHANGED <<target_page, restVars>>
    /\ UNCHANGED <<iterations, stalled>>

\* cli.py:18-20
CliExit ==
    /\ pc = "returned"
    /\ exit_code' = ExitStatus(result = "True")
    /\ pc' = "exited"
    /\ UNCHANGED <<exists, total_pages, size, i, current_chunk, chunk_count,
                   current_size, compressed_size, saved, result>>
    /\ UNCHANGED <<target_page, restVars>>
    /\ UNCHANGED <<iterations, stalled>>

Next ==
    \/ InputNotFound
    \/ OpenInput
    \/ LoopFits
    \/ LoopBacktrack
    \/ LoopCompressSave
    \/ LoopCompressFail
    \/ LoopExit
    \/ CliExit

(***************************************************************************)
(* The fallback of chunk_pdf in steps (core.py:61-83)                     *)
(***************************************************************************)
\* core.py:65-66
FallbackProcess ==
    /\ pc = "fallback"
    /\ target_page' = process_page_images(target_page, DefaultMaxDim)
    /\ pc' = "reprobe"
    /\ UNCHANGED <<exists, total_pages, size, i, current_chunk, chunk_count,
                   current_size, compressed_size, saved, result, exit_code,
                   fontVars, imageVars>>
    /\ UNCHANGED <<iterations, stalled>>

\* core.py:67-83
FallbackSave ==
    /\ pc = "reprobe"
    /\ \E s2 \in SizeVals :
         /\ ~OverLimit(s2)
         /\ compressed_size' = s2
         /\ saved' = SaveChunk(current_chunk, s2, "compressed")
    /\ chunk_count' = NextChunkCount(chunk_count)
    /\ current_chunk' = <<>>
    /\ i' = i + 1
    /\ pc' = "loop"
    /\ UNCHANGED <<exists, total_pages, size, current_size, result, exit_code,
                   target_page, fontVars, imageVars>>
    /\ iterations' = iterations + 1
    /\ stalled' = FALSE

\* core.py:67-75
FallbackFail ==
    /\ pc = "reprobe"
    /\ \E s2 \in SizeVals :
         /\ OverLimit(s2)
         /\ compressed_size' = s2
    /\ result' = "False"
    /\ pc' = "returned"
    /\ UNCHANGED <<exists, total_pages, size, i, current_chunk, chunk_count,
                   current_size, saved, exit_code, target_page, fontVars,
                   imageVars>>
    /\ iterations' = iterations + 1
    /\ stalled' = (i' = i)

(***************************************************************************)
(* Calls of the pure functions                                            *)
(***************************************************************************)
CallIsType0FontBroken ==
    /\ font_broken = "unset"
    /\ pc = "rest"
    /\ font_broken' = IF is_type0_font_broken(font) THEN "True" ELSE "False"
    /\ UNCHANGED <<plannerVars, target_page, font, imageVars>>

CallNeedsInversion ==
    /\ inverts = "unset"
    /\ pc = "rest"
    /\ inverts' = IF needs_inversion(arg_image) THEN "True" ELSE "False"
    /\ UNCHANGED <<plannerVars, target_page, fontVars, arg_image, arg_max_dim,
                   optimized>>

CallOptimizeImage ==
    /\ optimized.err = "unset"
    /\ pc = "rest"
    /\ optimized' = optimize_image(arg_image, FallbackQuality, arg_max_dim)
    /\ UNCHANGED <<plannerVars, target_page, fontVars, arg_image, arg_max_dim,
                   inverts>>

(***************************************************************************)
(* Specifications                                                         *)
(***************************************************************************)
FallbackNext ==
    \/ FallbackProcess
    \/ FallbackSave
    \/ FallbackFail
    \/ LoopExit
    \/ CliExit

FontNext == CallIsType0FontBroken

ImageNext ==
    \/ CallNeedsInversion
    \/ CallOptimizeImage

\* the command line on any document, the fallback taken as one step
Spec == Init /\ [][Next]_vars

\* the same run, executed: the interpreter takes the next step of a
\* sequential program whenever there is one
SpecLive == Init /\ [][Next]_vars /\ WF_vars(Next)

\* the fallback on a page with its images and fonts
SpecFallback == FallbackInit /\ [][FallbackNext]_vars

\* is_type0_font_broken on every font
SpecFont == FontInit /\ [][FontNext]_vars

\* needs_inversion and optimize_image on every byte stream
SpecInvert == InvertInit /\ [][ImageNext]_vars

\* optimize_image on every size
SpecResize == ResizeInit /\ [][ImageNext]_vars

(***************************************************************************)
(* Properties of chunk_pdf                                                *)
(***************************************************************************)
\* C1: every saved chunk has serialized size <= MAX_CHUNK_SIZE at the moment
\* it is saved, at each of the three save sites, in successful and in failed
\* runs, for every assignment of sizes to page runs.
C1_SavedWithinBudget ==
    \A k \in DOMAIN saved : saved[k].size <= MAX_CHUNK_SIZE

\* a run that saved at all three sites
C1_Witness ==
    /\ \E k \in DOMAIN saved :
            saved[k].site = "backtrack" /\ Len(saved[k].pages) > 1
    /\ \E k \in DOMAIN saved : saved[k].site = "compressed"
    /\ \E k \in DOMAIN saved : saved[k].site = "final"

RECURSIVE PagesOf(_)
PagesOf(chunks) ==
    IF chunks = <<>> THEN <<>>
    ELSE PagesOf(Front(chunks)) \o Last(chunks).pages

IsRun(pages) ==
    /\ pages # <<>>
    /\ \A j \in 1 .. Len(pages) - 1 : pages[j + 1] = pages[j] + 1

\* C2: when chunk_pdf returns True, the pages of the saved chunks, in save
\* order, are the source pages 0 .. total-1 in order, each once, and every
\* saved chunk is a non-empty contiguous run.
C2_PageOrder ==
    result = "True" =>
        /\ PagesOf(saved) = [k \in 1 .. total_pages |-> k - 1]
        /\ \A c \in DOMAIN saved : IsRun(saved[c].pages)

C2_Witness ==
    /\ result = "True"
    /\ total_pages = 4
    /\ Len(saved) = 3
    /\ saved[1].site = "backtrack"

\* C3: when page i is appended to a chunk that holds at least one page and
\* the probe exceeds the limit, the chunk saved by that step holds exactly
\* the pages held before the append, the cursor stays at i and the chunk is
\* emptied; and whenever the chunk is empty, the step appends page i first,
\* so page i opens the next chunk.
C3_Backtrack ==
    [][ /\ ( /\ pc = "loop"
             /\ i < total_pages
             /\ Len(current_chunk) >= 1
             /\ size[<<current_chunk[1], i>>] > MAX_CHUNK_SIZE )
           => /\ Len(saved') = Len(saved) + 1
              /\ Last(saved').pages = current_chunk
              /\ i' = i
              /\ current_chunk' = <<>>
              /\ pc' = "loop"
        /\ ( /\ pc = "loop"
             /\ i < total_pages
             /\ current_chunk = <<>> )
           => \/ current_chunk' = <<i>>
              \/ /\ current_chunk' = <<>>
                 /\ Len(saved') = Len(saved) + 1
                 /\ Last(saved').pages = <<i>>
      ]_vars

\* pages 1-3 fit together, page 4 does not: chunk 1 holds pages 1-3 and
\* chunk 2 starts with page 4
C3_Witness ==
    /\ Len(saved) = 1
    /\ saved[1].site = "backtrack"
    /\ saved[1].pages = <<0, 1, 2>>
    /\ current_chunk = <<3>>

\* C4: chunk_pdf returns False on an existing input only when a single-page
\* chunk is over the limit before and after the fallback, and then always;
\* that chunk is never saved, nothing is saved by the failing step or after
\* it, the chunks saved before stay, and the command line exits non-zero.
C4_Failure ==
    /\ []( /\ (result = "False" /\ exists) =>
                /\ Len(current_chunk) = 1
                /\ OverLimit(current_size)
                /\ OverLimit(compressed_size)
                /\ \A c \in DOMAIN saved :
                      \A j \in DOMAIN saved[c].pages :
                          saved[c].pages[j] # current_chunk[1]
           /\ (pc = "exited" /\ result = "False") => exit_code # 0
           /\ (pc = "exited" /\ result = "True") => exit_code = 0 )
    /\ [][ /\ result' = "False" => saved' = saved
           /\ ( /\ pc = "loop"
                /\ i < total_pages
                /\ current_chunk = <<>>
                /\ size[<<i, i>>] > MAX_CHUNK_SIZE )
              => (compressed_size' > MAX_CHUNK_SIZE <=> result' = "False")
           /\ (result' = "False" /\ result # "False" /\ exists)
              => /\ pc = "loop"
                 /\ current_chunk = <<>>
                 /\ size[<<i, i>>] > MAX_CHUNK_SIZE
                 /\ compressed_size' > MAX_CHUNK_SIZE
         ]_vars

\* a failed run that had saved chunks, after the command line exited
C4_Witness ==
    /\ exists
    /\ result = "False"
    /\ pc = "exited"
    /\ Len(saved) >= 2

\* C9: the numbers in the names of the saved chunks are 1, 2, ..., k in save
\* order, none reused and none skipped, also when the run fails.
C9_Numbering ==
    \A k \in DOMAIN saved : saved[k].num = k

C9_Witness ==
    /\ result = "False"
    /\ Len(saved) = 3
    /\ saved[3].num = 3

\* a pass through the body of the while loop
LoopPass == iterations' = iterations + 1

\* C11: every run of chunk_pdf returns True or False; a pass that follows
\* a pass which left the cursor i unchanged starts from an empty chunk and
\* either advances i or returns False, so that no two consecutive passes
\* both backtrack; the loop makes at most 2 * total_pages passes.
C11_Terminates ==
    /\ <>(result \in {"True", "False"})
    /\ []( /\ iterations <= 2 * total_pages
           /\ (stalled /\ pc = "loop") => current_chunk = <<>> )
    /\ [][ (LoopPass /\ stalled) =>
             \/ i' = i + 1
             \/ (result' = "False" /\ pc' = "returned") ]_vars

\* a run that backtracks at every page but the first, and returns
C11_Witness ==
    /\ pc = "returned"
    /\ result = "True"
    /\ total_pages >= 3
    /\ iterations = 2 * total_pages - 1
    /\ \E k \in DOMAIN saved : saved[k].site = "backtrack"

(***************************************************************************)
(* Properties of process_page_images and of the fallback                  *)
(***************************************************************************)
\* the image never reaches the encoder: images.py:169-171
ShortCircuits(a, cap) ==
    /\ a.Filter = "DCTDecode"
    /\ a.mode = "RGB"
    /\ ~NeedsResize(a.Width, a.Height, cap)

\* the codec raises a decode or an encode error on the image
CodecFails(a, cap) ==
    /\ SupportedFilter(a.Filter)
    /\ \/ a.fault = "decode"
       \/ (a.fault = "encode" /\ ~ShortCircuits(a, cap))

\* the image is optimized without any error
Optimizable(a, cap) ==
    /\ SupportedFilter(a.Filter)
    /\ a.fault = "none"
    /\ ~( /\ NeedsResize(a.Width, a.Height, cap)
          /\ \E j \in 1 .. 2 : NewSize(a.Width, a.Height, cap)[j] < 1 )

\* C5: an image on which the codec raises a decode or an encode error is
\* left as it was, key by key; process_page_images still returns, and every
\* other image it can optimize, before or after the failing one, is
\* rewritten as an RGB JPEG.
C5_ImageFailureIsLocal ==
    [][ (pc = "fallback") =>
          /\ pc' = "reprobe"
          /\ Len(target_page'.images) = Len(target_page.images)
          /\ \A k \in DOMAIN target_page.images :
                LET a == target_page.images[k]
                    b == target_page'.images[k]
                IN  /\ CodecFails(a, DefaultMaxDim) => b = a
                    /\ Optimizable(a, DefaultMaxDim) =>
                          /\ b.Filter = "DCTDecode"
                          /\ b.ColorSpace = "DeviceRGB"
                          /\ b.BitsPerComponent = 8
                          /\ ~b.Decode
                          /\ ~b.DecodeParms
                          /\ b.mode = "RGB"
      ]_vars

\* a page whose first image fails to decode and whose second image, a big
\* CMYK JPEG, was rewritten after it
C5_Witness ==
    /\ pc = "reprobe"
    /\ Len(target_page.images) = 2
    /\ target_page.images[1].fault = "decode"
    /\ target_page.images[1].ColorSpace = "DeviceCMYK"
    /\ target_page.images[2].fault = "none"
    /\ target_page.images[2].Width = 1500
    /\ target_page.images[2].ColorSpace = "DeviceRGB"

\* C10: when the fallback runs, every font of the page classified broken is
\* gone from the font table before the size is re-probed, whatever the
\* images of the page.
C10_FontsRepairedBeforeReprobe ==
    pc = "reprobe" => broken_fonts(target_page.fonts) = {}

(***************************************************************************)
(* Properties of is_type0_font_broken                                     *)
(***************************************************************************)
IsPageObject(d) == d.kind = "dict" /\ d.Type = "Page"

\* the record passes for a CIDFont: images.py:52-54
AcceptedAsCIDFont(d) ==
    /\ d.kind = "dict"
    /\ d.Subtype \in {"CIDFontType0", "CIDFontType2"}
    /\ "/BaseFont" \in d.keys

HasDescendantArray(f) == f.Subtype = "Type0" /\ f.descKind = "array"

\* C6 as claimed: a Type0 font with a page object among its descendants is
\* classified broken, whatever the other keys of that record.
C6_PageObjectAlwaysBroken ==
    ( /\ font_broken # "unset"
      /\ HasDescendantArray(font)
      /\ \E j \in DOMAIN font.desc : IsPageObject(font.desc[j]) )
    => font_broken = "True"

\* C6 as amended: a Type0 font with a page object among its descendants is
\* classified broken, whatever the other descendants, unless that record
\* carries a /Subtype of CIDFontType0 or CIDFontType2 together with a
\* /BaseFont: such a record is accepted before its /Type is looked at.
C6_PageObjectBroken ==
    ( /\ font_broken # "unset"
      /\ HasDescendantArray(font)
      /\ \E j \in DOMAIN font.desc :
            IsPageObject(font.desc[j]) /\ ~AcceptedAsCIDFont(font.desc[j]) )
    => font_broken = "True"

\* a font found broken for its page object alone, placed after a good CIDFont
C6_Witness ==
    /\ font_broken = "True"
    /\ HasDescendantArray(font)
    /\ Len(font.desc) = 2
    /\ font.desc[1] = GoodCID
    /\ font.desc[2] = [kind |-> "dict", Subtype |-> "Type1", Type |-> "Page",
                       keys |-> {"/BaseFont"}]

(***************************************************************************)
(* Properties of needs_inversion and optimize_image                       *)
(***************************************************************************)
\* the first 0xFF 0xEE of the stream is at position p (counted from 1), the
\* signature follows 4 bytes after its start, and the byte 11 past the start
\* of the signature exists and is 0 or 2
MarkerAsksInversion(data) ==
    \E p \in 1 .. Len(data) - 1 :
        /\ data[p] = 255 /\ data[p + 1] = 238
        /\ \A q \in 1 .. p - 1 : ~(data[q] = 255 /\ data[q + 1] = 238)
        /\ Len(data) >= p + 8
        /\ \A j \in 1 .. 5 : data[p + 3 + j] = AdobeSig[j]
        /\ Len(data) >= p + 15
        /\ data[p + 15] \in {0, 2}

IndexOf(calls, c) == CHOOSE j \in DOMAIN calls : calls[j] = c

\* C7: needs_inversion returns True exactly for a DCT image whose stream
\* carries the Adobe marker with transform 0 or 2; optimize_image inverts
\* the samples exactly of the CMYK images for which it does, and before the
\* conversion to RGB.
C7_Inversion ==
    /\ inverts # "unset" =>
          ( inverts = "True" <=>
                ( /\ arg_image.Filter = "DCTDecode"
                  /\ MarkerAsksInversion(arg_image.data) ) )
    /\ optimized.err = "none" =>
          /\ (\E j \in DOMAIN optimized.calls : optimized.calls[j] = "invert")
                <=> ( /\ arg_image.mode = "CMYK"
                      /\ arg_image.Filter = "DCTDecode"
                      /\ MarkerAsksInversion(arg_image.data) )
          /\ (\E j \in DOMAIN optimized.calls : optimized.calls[j] = "invert")
                => /\ \E j \in DOMAIN optimized.calls :
                          optimized.calls[j] = "convert"
                   /\ IndexOf(optimized.calls, "invert")
                          < IndexOf(optimized.calls, "convert")

\* a CMYK JPEG whose marker follows the SOI, found to need inversion and
\* inverted before it was converted
C7_Witness ==
    /\ inverts = "True"
    /\ optimized.err = "none"
    /\ arg_image.mode = "CMYK"
    /\ arg_image.data[1] = 255 /\ arg_image.data[2] = 216
    /\ optimized.calls = <<"invert", "convert", "save">>

\* half rounded up: the integer nearest num / den
Nearest(num, den) == (2 * num + den) \div (2 * den)

\* C8: an image whose longer edge exceeds max_dim comes back with the longer
\* edge equal to max_dim and the shorter edge the nearest integer to
\* shorter * max_dim / longer, both at least 1; any other image keeps its
\* dimensions.
C8_Resize ==
    (optimized.err # "unset" /\ arg_max_dim # 0) =>
        LET w == arg_image.Width
            h == arg_image.Height
        IN  IF Max(w, h) > arg_max_dim
            THEN /\ optimized.err = "none"
                 /\ Max(optimized.width, optimized.height) = arg_max_dim
                 /\ Min(optimized.width, optimized.height)
                        = Nearest(Min(w, h) * arg_max_dim, Max(w, h))
                 /\ (w >= h <=> optimized.width >= optimized.height)
                 /\ optimized.width >= 1
                 /\ optimized.height >= 1
            ELSE /\ optimized.err = "none"
                 /\ optimized.width = w
                 /\ optimized.height = h

====
